---- MODULE Spec2Model ----
(***************************************************************************)
(* Model of real_robots/evaluate.py: the local evaluation driver           *)
(* `evaluate` (lines 33-245) and the score aggregation                     *)
(* `build_score_object` (lines 13-30).                                     *)
(*                                                                         *)
(* `evaluate` is modelled as a sequential program whose position is `pc`;  *)
(* one action per call it makes on a collaborator (the gym environment or  *)
(* the controller).  The collaborators are the nondeterministic part: what *)
(* env.step returns for `done`, what env.evaluateGoal returns, and whether *)
(* a call raises.  The progress bars (tqdm), print and env.render only     *)
(* display and are left out.                                               *)
(*                                                                         *)
(* Scores are real numbers in the program (np.mean gives a float).  Here a *)
(* trial score is an integer and every computed score an exact fraction    *)
(* [n, d] in lowest terms; d = 0 is the NaN that np.mean([]) = 0.0/0       *)
(* produces.                                                               *)
(***************************************************************************)
EXTENDS Integers, Sequences, FiniteSets, TLC

VARIABLES
    pc,                   \* position inside evaluate
    Controller,           \* argument: the supplied controller class
    intrinsic_timesteps,  \* argument, then the local normalised at 134-136
    extrinsic_timesteps,  \* argument
    extrinsic_trials,     \* argument
    evaluation_state,     \* the dict of lines 107-122
    scores,               \* the ledger: dict challenge -> list of scores
    observation,          \* local `observation`
    reward,               \* local `reward`
    done,                 \* local `done`
    steps,                \* number of env.step calls in the current episode
    k,                    \* loop variable of `for k in range(...)`
    goal,                 \* value returned by env.evaluateGoal()
    postfix,              \* last snapshot handed to the progress display
    printed,              \* the score object written at line 240
    step_args,            \* arguments of the last controller.step call
    result,               \* value returned by evaluate, None before
    exc,                  \* the exception that left evaluate, "none" before
    log                   \* every call made on the env / the controller

vars == <<pc, Controller, intrinsic_timesteps, extrinsic_timesteps,
          extrinsic_trials,
          evaluation_state, scores, observation, reward, done, steps, k,
          goal, postfix, printed, step_args, result, exc, log>>

----------------------------------------------------------------------------
(* Bounds of the model *)

\* largest number of extrinsic trials of a run
MaxTrials == 2
\* the environment signals done at the latest on this step of an episode
MaxSteps == 2
\* the configured timestep budget, where one is configured
MaxBudget == 1
\* largest trial score
MaxScore == 3
\* largest number of entries of a ledger handed to build_score_object alone
MaxEntries == 3

\* the scores of a ledger handed to build_score_object alone
ScoreVals == (-1)..MaxScore

\* the scores env.evaluateGoal may return
EnvScores == {-1, 0, MaxScore}

\* the labels env.evaluateGoal may return: the three challenges and one
\* label that build_score_object does not know
Labels == {"2D", "2.5D", "3D", "other"}

\* Python's None, and the empty dict
None == <<>>

----------------------------------------------------------------------------
(* Fractions *)

Abs(x) == IF x < 0 THEN -x ELSE x

RECURSIVE GCD(_, _)
GCD(a, b) == IF b = 0 THEN a ELSE GCD(b, a % b)

NaN == [n |-> 0, d |-> 0]

\* n / d in float arithmetic: 0/0 is nan
Frac(n, d) ==
    IF d = 0 THEN NaN
    ELSE LET g == GCD(Abs(n), d) IN [n |-> n \div g, d |-> d \div g]

Zero == Frac(0, 1)

IsNaN(a) == a.d = 0

\* a + b; nan is absorbing
FAdd(a, b) ==
    IF IsNaN(a) \/ IsNaN(b) THEN NaN
    ELSE Frac(a.n * b.d + b.n * a.d, a.d * b.d)

\* a / m for an integer m > 0
FDivInt(a, m) == IF IsNaN(a) THEN NaN ELSE Frac(a.n, a.d * m)

RECURSIVE SumSeq(_)
SumSeq(s) == IF s = <<>> THEN 0 ELSE s[1] + SumSeq(Tail(s))

\* np.mean(results)
np_mean(results) == Frac(SumSeq(results), Len(results))

----------------------------------------------------------------------------
(* build_score_object, lines 13-30 *)

\* a list of challenges that also has the label "other"
challenges_all == <<"2D", "2.5D", "3D", "other">>

\* line 15
challenges == <<"2D", "2.5D", "3D">>

\* "score_{}".format(key)
ScoreKey(key) == "score_" \o key

\* dict d with d[key] = val assigned
DictSet(d, key, val) ==
    [x \in (DOMAIN d) \cup {key} |-> IF x = key THEN val ELSE d[x]]

\* lines 19-24: the score of one challenge
challenge_score(scores_, key) ==
    IF key \in DOMAIN scores_ THEN np_mean(scores_[key]) ELSE Zero

\* the for loop of lines 18-26, from the i-th challenge on;
\* acc = [total_score, score_object]
RECURSIVE ChallengeLoop(_, _, _)
ChallengeLoop(scores_, i, acc) ==
    IF i > Len(challenges) THEN acc
    ELSE LET key == challenges[i]
             cs  == challenge_score(scores_, key)
         IN ChallengeLoop(scores_, i + 1,
               [total_score  |-> FAdd(acc.total_score, cs),
                score_object |-> DictSet(acc.score_object, ScoreKey(key), cs)])

\* build_score_object with the total taken over the challenges of the ledger
build_score_object_over_present(scores_) ==
    LET acc == ChallengeLoop(scores_, 1,
                   [total_score |-> Zero, score_object |-> None])
        present == {i \in DOMAIN challenges : challenges[i] \in DOMAIN scores_}
        total_score == FDivInt(acc.total_score,
                               IF present = {} THEN 1 ELSE Cardinality(present))
    IN DictSet(acc.score_object, "score_total", total_score)

build_score_object(scores_) ==
    LET acc == ChallengeLoop(scores_, 1,
                   [total_score |-> Zero, score_object |-> None])
        total_score == FDivInt(acc.total_score, Len(challenges))
    IN DictSet(acc.score_object, "score_total", total_score)

\* a build_score_object that fetches the results with
\* scores.setdefault(key, []) and so leaves an empty list for each challenge
\* without data
scores_after_build_setdefault(scores_) ==
    [l \in (DOMAIN scores_) \cup {challenges[i] : i \in DOMAIN challenges} |->
        IF l \in DOMAIN scores_ THEN scores_[l] ELSE <<>>]

\* the ledger as a call build_score_object(scores_) leaves it: lines 13-30
\* read scores_ (lines 19-21) and assign only to locals
scores_after_build(scores_) == scores_

\* add_scores that makes the list of a new challenge and drops the score
add_scores_forgets(scores_, challenge, score) ==
    IF challenge \in DOMAIN scores_
    THEN [scores_ EXCEPT ![challenge] = @ \o <<score>>]
    ELSE DictSet(scores_, challenge, <<>>)

\* add_scores that keeps only the last score of a challenge
add_scores_overwrites(scores_, challenge, score) ==
    DictSet(scores_, challenge, <<score>>)

\* add_scores, lines 128-132, as the new value of the ledger
add_scores(scores_, challenge, score) ==
    IF challenge \in DOMAIN scores_
    THEN [scores_ EXCEPT ![challenge] = @ \o <<score>>]
    ELSE DictSet(scores_, challenge, <<score>>)

----------------------------------------------------------------------------
(* evaluate, lines 33-245 *)

\* the values of the intrinsic_timesteps argument: False, or an int
PyFalse == [bool |-> TRUE, v |-> 0]
PyInt(i) == [bool |-> FALSE, v |-> i]
IntrinsicArgs == {PyFalse, PyInt(0), PyInt(MaxBudget)}

\* truth value of a Python bool or int
Truthy(a) == a.v # 0

\* lines 134-136: intrinsic_timesteps = 0 if it is set as False
NormaliseBudget(a) == IF ~Truthy(a) THEN PyInt(0) ELSE a

\* the intrinsic phase entered with a budget of 0 as well
IntrinsicPhaseRunsAtZero(a) == a.v >= 0

\* line 138: the intrinsic phase runs
IntrinsicPhaseRuns(a) == a.v > 0

\* a check that lets every class pass
issubclass_anything(C) == TRUE

\* line 69: issubclass(Controller, BasePolicy)
issubclass_BasePolicy(C) == C = "BasePolicySubclass"

\* a loop that makes one trial more
RangeHasNextInclusive(i, n) == i <= n

\* a loop that makes one trial less
RangeHasNextShort(i, n) == i < n - 1

\* line 198: range(n) yields index i
RangeHasNext(i, n) == i < n

\* a loop that also stops when the budget of steps is used up
LoopContinuesWithinBudget(d) == ~d /\ steps + 1 < extrinsic_timesteps

\* lines 160, 215: `while not done`
LoopContinues(d) == ~d

\* what env.reset() returns: the first observation of an episode
ResetObservation == <<"env.reset", 0>>

\* what the n-th env.step of an episode returns as observation and reward
StepObservation(n) == <<"env.step", n>>
StepReward(n) == n

\* the dict of lines 107-122
InitialEvaluationState(it, et, n) ==
    [state |-> "PENDING",
     max_intrinsic_timesteps |-> it,
     max_extrinsic_timesteps |-> et,
     current_intrinsic_timestep |-> 0,
     max_extrinsic_trials |-> n,
     num_extrinsic_trials_complete |-> 0,
     progress_in_current_extrinsic_trial |-> 0,
     score |-> [x \in {"score", "score_2D", "score_2.5D", "score_3D",
                        "score_total"} |-> 0]]

\* an evaluate that catches the exception and returns the scores so far
RaisesCaught(op) ==
    /\ pc' = "returned"
    /\ exc' = op
    /\ log' = Append(log, op)
    /\ result' = build_score_object(scores)
    /\ UNCHANGED <<Controller, intrinsic_timesteps, extrinsic_timesteps,
                   extrinsic_trials, evaluation_state, scores, observation,
                   reward, done, steps, k, goal, postfix, printed,
                   step_args>>

\* evaluate has no try/except: an exception raised by the call `op` leaves
\* evaluate at once; nothing else of evaluate runs
Raises(op) ==
    /\ pc' = "raised"
    /\ exc' = op
    /\ log' = Append(log, op)
    /\ UNCHANGED <<Controller, intrinsic_timesteps, extrinsic_timesteps,
                   extrinsic_trials, evaluation_state, scores, observation,
                   reward, done, steps, k, goal, postfix, printed,
                   step_args, result>>

\* the call `op` returns and evaluate goes on at `next`
Returns(op, next) ==
    /\ pc' = next
    /\ log' = Append(log, op)
    /\ UNCHANGED <<Controller, intrinsic_timesteps, extrinsic_timesteps,
                   extrinsic_trials, evaluation_state, exc, result>>

Init ==
    /\ pc = "start"
    /\ Controller \in {"BasePolicySubclass", "OtherClass"}
    /\ intrinsic_timesteps \in IntrinsicArgs
    /\ extrinsic_timesteps = MaxBudget
    /\ extrinsic_trials \in 0..MaxTrials
    /\ evaluation_state = None
    /\ scores = None
    /\ observation = None
    /\ reward = 0
    /\ done = FALSE
    /\ steps = 0
    /\ k = 0
    /\ goal = None
    /\ postfix = None
    /\ printed = None
    /\ step_args = None
    /\ result = None
    /\ exc = "none"
    /\ log = <<>>

\* lines 63-77: the environment is made, the controller class is refused
CheckFails ==
    /\ pc = "start"
    /\ ~issubclass_BasePolicy(Controller)
    /\ pc' = "raised"
    /\ exc' = "not_a_subclass"
    /\ log' = log \o <<"gym.make", "env.set_goals_dataset_path">>
    /\ UNCHANGED <<Controller, intrinsic_timesteps, extrinsic_timesteps,
                   extrinsic_trials, evaluation_state, scores, observation,
                   reward, done, steps, k, goal, postfix, printed,
                   step_args, result>>

\* a set-up whose ledger starts with an empty list for every challenge
SetupWithLists ==
    /\ pc = "start"
    /\ issubclass_BasePolicy(Controller)
    /\ log' = log \o <<"gym.make", "env.set_goals_dataset_path",
                        "Controller.__init__">>
    /\ evaluation_state' = InitialEvaluationState(intrinsic_timesteps,
                               extrinsic_timesteps, extrinsic_trials)
    /\ scores' = [i \in {"2D", "2.5D", "3D"} |-> <<>>]
    /\ intrinsic_timesteps' = NormaliseBudget(intrinsic_timesteps)
    /\ pc' = IF IntrinsicPhaseRuns(intrinsic_timesteps')
             THEN "i_reset" ELSE "x_phase"
    /\ UNCHANGED <<Controller, extrinsic_timesteps, extrinsic_trials,
                   observation, reward, done, steps, k, goal, postfix,
                   printed, step_args, result, exc>>

\* lines 63-138: the environment is made, the controller constructed, the
\* evaluation state and the ledger set up, the budget normalised and the
\* phase chosen
Setup ==
    /\ pc = "start"
    /\ issubclass_BasePolicy(Controller)
    /\ log' = log \o <<"gym.make", "env.set_goals_dataset_path",
                        "Controller.__init__">>
    /\ evaluation_state' = InitialEvaluationState(intrinsic_timesteps,
                               extrinsic_timesteps, extrinsic_trials)
    /\ scores' = None
    /\ intrinsic_timesteps' = NormaliseBudget(intrinsic_timesteps)
    /\ pc' = IF IntrinsicPhaseRuns(intrinsic_timesteps')
             THEN "i_reset" ELSE "x_phase"
    /\ UNCHANGED <<Controller, extrinsic_timesteps, extrinsic_trials,
                   observation, reward, done, steps, k, goal, postfix,
                   printed, step_args, result, exc>>

\* lines 139-141
IntrinsicReset ==
    /\ pc = "i_reset"
    /\ \/ /\ Returns("env.reset", "i_phase")
          /\ observation' = ResetObservation
          /\ reward' = 0
          /\ done' = FALSE
          /\ UNCHANGED <<scores, steps, k, goal, postfix, printed,
                         step_args>>
       \/ Raises("env.reset")

\* lines 157-160
StartIntrinsicPhase ==
    /\ pc = "i_phase"
    /\ \/ /\ Returns("controller.start_intrinsic_phase",
                     IF LoopContinues(done) THEN "i_step" ELSE "i_end")
          /\ steps' = 0
          /\ UNCHANGED <<scores, observation, reward, done, k, goal,
                         postfix, printed, step_args>>
       \/ Raises("controller.start_intrinsic_phase")

\* line 162
IntrinsicControllerStep ==
    /\ pc = "i_step"
    /\ \/ /\ Returns("controller.step", "i_env")
          /\ step_args' = <<observation, reward, done>>
          /\ UNCHANGED <<scores, observation, reward, done, steps, k, goal,
                         postfix, printed>>
       \/ Raises("controller.step")

\* the loop body with the call of line 175 indented into it
IntrinsicEnvStepNotifies ==
    /\ pc = "i_env"
    /\ \/ \E d \in BOOLEAN :
             /\ d \/ steps + 1 < MaxSteps
             /\ observation' = StepObservation(steps + 1)
             /\ reward' = StepReward(steps + 1)
             /\ done' = d
             /\ steps' = steps + 1
             /\ pc' = IF LoopContinues(d) THEN "i_step" ELSE "x_phase"
             /\ log' = log \o <<"env.step", "controller.end_intrinsic_phase">>
             /\ UNCHANGED <<Controller, intrinsic_timesteps,
                            extrinsic_timesteps, extrinsic_trials,
                            evaluation_state, exc, result, scores, k, goal,
                            postfix, printed, step_args>>
       \/ Raises("env.step")

\* lines 164-165 and the loop test of line 160; the environment chooses done
IntrinsicEnvStep ==
    /\ pc = "i_env"
    /\ \/ \E d \in BOOLEAN :
             /\ d \/ steps + 1 < MaxSteps
             /\ observation' = StepObservation(steps + 1)
             /\ reward' = StepReward(steps + 1)
             /\ done' = d
             /\ steps' = steps + 1
             /\ Returns("env.step",
                        IF LoopContinues(d) THEN "i_step" ELSE "i_end")
             /\ UNCHANGED <<scores, k, goal, postfix, printed, step_args>>
       \/ Raises("env.step")

\* line 175
EndIntrinsicPhase ==
    /\ pc = "i_end"
    /\ \/ /\ Returns("controller.end_intrinsic_phase", "x_phase")
          /\ UNCHANGED <<scores, observation, reward, done, steps, k, goal,
                         postfix, printed, step_args>>
       \/ Raises("controller.end_intrinsic_phase")

\* lines 197-198
StartExtrinsicPhase ==
    /\ pc = "x_phase"
    /\ \/ /\ Returns("controller.start_extrinsic_phase",
                     IF RangeHasNext(0, extrinsic_trials)
                     THEN "x_reset" ELSE "x_finish")
          /\ k' = 0
          /\ UNCHANGED <<scores, observation, reward, done, steps, goal,
                         postfix, printed, step_args>>
       \/ Raises("controller.start_extrinsic_phase")

\* a reset of the trial without the `done = False` of line 201
ExtrinsicResetKeepsDone ==
    /\ pc = "x_reset"
    /\ \/ /\ Returns("env.reset", "x_goal")
          /\ observation' = ResetObservation
          /\ reward' = 0
          /\ steps' = 0
          /\ UNCHANGED <<scores, done, k, goal, postfix, printed, step_args>>
       \/ Raises("env.reset")

\* lines 199-201
ExtrinsicReset ==
    /\ pc = "x_reset"
    /\ \/ /\ Returns("env.reset", "x_goal")
          /\ observation' = ResetObservation
          /\ reward' = 0
          /\ done' = FALSE
          /\ steps' = 0
          /\ UNCHANGED <<scores, k, goal, postfix, printed, step_args>>
       \/ Raises("env.reset")

\* line 202
SetGoal ==
    /\ pc = "x_goal"
    /\ \/ /\ Returns("env.set_goal", "x_trial")
          /\ UNCHANGED <<scores, observation, reward, done, steps, k, goal,
                         postfix, printed, step_args>>
       \/ Raises("env.set_goal")

\* lines 205-215
StartExtrinsicTrial ==
    /\ pc = "x_trial"
    /\ \/ /\ Returns("controller.start_extrinsic_trial",
                     IF LoopContinues(done) THEN "x_step" ELSE "x_end")
          /\ UNCHANGED <<scores, observation, reward, done, steps, k, goal,
                         postfix, printed, step_args>>
       \/ Raises("controller.start_extrinsic_trial")

\* line 216
ExtrinsicControllerStep ==
    /\ pc = "x_step"
    /\ \/ /\ Returns("controller.step", "x_env")
          /\ step_args' = <<observation, reward, done>>
          /\ UNCHANGED <<scores, observation, reward, done, steps, k, goal,
                         postfix, printed>>
       \/ Raises("controller.step")

\* line 217 and the loop test of line 215; the environment chooses done
ExtrinsicEnvStep ==
    /\ pc = "x_env"
    /\ \/ \E d \in BOOLEAN :
             /\ d \/ steps + 1 < MaxSteps
             /\ observation' = StepObservation(steps + 1)
             /\ reward' = StepReward(steps + 1)
             /\ done' = d
             /\ steps' = steps + 1
             /\ Returns("env.step",
                        IF LoopContinues(d) THEN "x_step" ELSE "x_end")
             /\ UNCHANGED <<scores, k, goal, postfix, printed, step_args>>
       \/ Raises("env.step")

\* line 221
EndExtrinsicTrial ==
    /\ pc = "x_end"
    /\ \/ /\ Returns("controller.end_extrinsic_trial", "x_eval")
          /\ UNCHANGED <<scores, observation, reward, done, steps, k, goal,
                         postfix, printed, step_args>>
       \/ Raises("controller.end_extrinsic_trial")

\* line 226, the argument: env.evaluateGoal() returns (challenge, score)
EvaluateGoal ==
    /\ pc = "x_eval"
    /\ \/ \E challenge \in Labels, score \in EnvScores :
             /\ goal' = <<challenge, score>>
             /\ Returns("env.evaluateGoal", "x_add")
             /\ UNCHANGED <<scores, observation, reward, done, steps, k,
                            postfix, printed, step_args>>
       \/ Raises("env.evaluateGoal")

\* the snapshot taken before the result is added to the ledger
AddScoresSnapshotFirst ==
    /\ pc = "x_add"
    /\ postfix' = build_score_object(scores)
    /\ scores' = add_scores(scores_after_build(scores), goal[1], goal[2])
    /\ IF RangeHasNext(k + 1, extrinsic_trials)
       THEN k' = k + 1 /\ pc' = "x_reset"
       ELSE k' = k /\ pc' = "x_finish"
    /\ UNCHANGED <<Controller, intrinsic_timesteps, extrinsic_timesteps,
                   extrinsic_trials, evaluation_state, observation, reward,
                   done, steps, goal, printed, step_args, result, exc, log>>

\* lines 226-231 and the next turn of line 198: the result is added to the
\* ledger and the snapshot of the scores goes to the progress display
AddScores ==
    /\ pc = "x_add"
    /\ LET added == add_scores(scores, goal[1], goal[2])
       IN /\ postfix' = build_score_object(added)
          /\ scores' = scores_after_build(added)
    /\ IF RangeHasNext(k + 1, extrinsic_trials)
       THEN k' = k + 1 /\ pc' = "x_reset"
       ELSE k' = k /\ pc' = "x_finish"
    /\ UNCHANGED <<Controller, intrinsic_timesteps, extrinsic_timesteps,
                   extrinsic_trials, evaluation_state, observation, reward,
                   done, steps, goal, printed, step_args, result, exc, log>>

\* line 240: the scores are aggregated and written out
PrintScores ==
    /\ pc = "x_finish"
    /\ printed' = build_score_object(scores)
    /\ scores' = scores_after_build(scores)
    /\ pc' = "x_notify"
    /\ UNCHANGED <<Controller, intrinsic_timesteps, extrinsic_timesteps,
                   extrinsic_trials, evaluation_state, observation, reward,
                   done, steps, k, goal, postfix, step_args, result, exc,
                   log>>

\* lines 242-243: the controller is told that the extrinsic phase ended
EndExtrinsicPhase ==
    /\ pc = "x_notify"
    /\ \/ /\ Returns("controller.end_extrinsic_trial", "x_return")
          /\ UNCHANGED <<scores, observation, reward, done, steps, k, goal,
                         postfix, printed, step_args>>
       \/ Raises("controller.end_extrinsic_trial")

\* line 245
Return ==
    /\ pc = "x_return"
    /\ result' = build_score_object(scores)
    /\ scores' = scores_after_build(scores)
    /\ pc' = "returned"
    /\ UNCHANGED <<Controller, intrinsic_timesteps, extrinsic_timesteps,
                   extrinsic_trials, evaluation_state, observation, reward,
                   done, steps, k, goal, postfix, printed, step_args, exc,
                   log>>

Next ==
    \/ CheckFails
    \/ Setup
    \/ IntrinsicReset
    \/ StartIntrinsicPhase
    \/ IntrinsicControllerStep
    \/ IntrinsicEnvStep
    \/ EndIntrinsicPhase
    \/ StartExtrinsicPhase
    \/ ExtrinsicReset
    \/ SetGoal
    \/ StartExtrinsicTrial
    \/ ExtrinsicControllerStep
    \/ ExtrinsicEnvStep
    \/ EndExtrinsicTrial
    \/ EvaluateGoal
    \/ AddScores
    \/ PrintScores
    \/ EndExtrinsicPhase
    \/ Return

Spec == Init /\ [][Next]_vars

\* env.step returns done = true
EnvSignalsDone == (IntrinsicEnvStep \/ ExtrinsicEnvStep) /\ done'

\* the positions of evaluate
ProgramPoints ==
    {"start", "i_reset", "i_phase", "i_step", "i_env", "i_end", "x_phase",
     "x_reset", "x_goal", "x_trial", "x_step", "x_env", "x_end", "x_eval",
     "x_add", "x_finish", "x_notify", "x_return", "returned", "raised"}

\* evaluate, not yet returned nor left by an exception, moves on; every
\* step of Next moves pc
Advance ==
    /\ pc \notin {"returned", "raised"}
    /\ pc' \in ProgramPoints
    /\ pc' # pc

\* evaluate runs on: it is a sequential program and no call blocks; in
\* every episode the environment signals done in the end
LiveSpec == Init /\ [][Next]_vars /\ WF_pc(Advance) /\ SF_vars(EnvSignalsDone)

TypeOK ==
    /\ pc \in {"start", "i_reset", "i_phase", "i_step", "i_env", "i_end",
               "x_phase", "x_reset", "x_goal", "x_trial", "x_step", "x_env",
               "x_end", "x_eval", "x_add", "x_finish", "x_notify",
               "x_return",
               "returned", "raised"}
    /\ k \in 0..MaxTrials
    /\ steps \in 0..MaxSteps
    /\ done \in BOOLEAN

----------------------------------------------------------------------------
(* build_score_object called on its own, on any dict: the caller builds a  *)
(* ledger, whose keys may hold empty lists, and aggregates it              *)

RECURSIVE Entries(_, _)
\* number of scores the ledger holds under the labels of S
Entries(scores_, S) ==
    IF S = {} THEN 0
    ELSE LET l == CHOOSE x \in S : TRUE
         IN Len(scores_[l]) + Entries(scores_, S \ {l})

AggInit ==
    /\ pc = "agg"
    /\ scores \in {[l \in D |-> <<>>] : D \in SUBSET Labels}
    /\ Controller = "BasePolicySubclass"
    /\ intrinsic_timesteps = PyInt(0)
    /\ extrinsic_timesteps = MaxBudget
    /\ extrinsic_trials = 0
    /\ evaluation_state = None
    /\ observation = None
    /\ reward = 0
    /\ done = FALSE
    /\ steps = 0
    /\ k = 0
    /\ goal = None
    /\ postfix = None
    /\ printed = None
    /\ step_args = None
    /\ result = None
    /\ exc = "none"
    /\ log = <<>>

\* the caller puts one more score into the ledger
AggExtend ==
    /\ pc \in {"agg", "agg_ret"}
    /\ Entries(scores, DOMAIN scores) < MaxEntries
    /\ \E challenge \in Labels, score \in ScoreVals :
          /\ goal' = <<challenge, score>>
          /\ scores' = add_scores(scores, challenge, score)
    /\ pc' = "agg"
    /\ result' = None
    /\ UNCHANGED <<Controller, intrinsic_timesteps, extrinsic_timesteps,
                   extrinsic_trials, evaluation_state, observation, reward,
                   done, steps, k, postfix, printed, step_args, exc, log>>

\* the caller calls build_score_object(scores)
AggBuild ==
    /\ pc = "agg"
    /\ result' = build_score_object(scores)
    /\ scores' = scores_after_build(scores)
    /\ pc' = "agg_ret"
    /\ UNCHANGED <<Controller, intrinsic_timesteps, extrinsic_timesteps,
                   extrinsic_trials, evaluation_state, observation, reward,
                   done, steps, k, goal, postfix, printed, step_args, exc,
                   log>>

AggNext ==
    \/ AggExtend
    \/ AggBuild

AggSpec == AggInit /\ [][AggNext]_vars

----------------------------------------------------------------------------
(* Reading the log *)

\* number of calls of op so far
Count(op) == Cardinality({i \in DOMAIN log : log[i] = op})

ControllerHooks ==
    {"controller.start_intrinsic_phase", "controller.end_intrinsic_phase",
     "controller.start_extrinsic_phase", "controller.start_extrinsic_trial",
     "controller.end_extrinsic_trial", "controller.end_extrinsic_phase"}

IsTrialHook(e) ==
    e \in {"controller.start_extrinsic_trial", "controller.end_extrinsic_trial"}

IsControllerCall(e) == e \in ControllerHooks \cup {"controller.step"}

IsSimulationCall(e) == IsControllerCall(e) \/ e \in {"env.reset", "env.step"}

IsTripleCall(e) == e \in {"env.reset", "env.set_goal", "env.evaluateGoal"}

\* the calls made after the first call of op; empty when op was not called
After(op) ==
    IF Count(op) = 0 THEN <<>>
    ELSE LET i == CHOOSE j \in DOMAIN log :
                     log[j] = op /\ \A h \in 1..(j - 1) : log[h] # op
         IN SubSeq(log, i + 1, Len(log))

\* the intrinsic_timesteps argument as passed, kept at line 109
BudgetArgument == evaluation_state.max_intrinsic_timesteps

\* evaluate has passed the setup of lines 63-136
SetUp == pc # "start" /\ exc # "not_a_subclass"

----------------------------------------------------------------------------
(* C1 - C10 *)

\* C1: a run with N >= 1 trials that returns has called
\* start_extrinsic_trial and end_extrinsic_trial N times each, in strict
\* alternation beginning with a start.
C1_TrialHooksAlternate ==
    (pc = "returned" /\ extrinsic_trials >= 1) =>
        LET h == SelectSeq(log, IsTrialHook)
        IN /\ Count("controller.start_extrinsic_trial") = extrinsic_trials
           /\ Count("controller.end_extrinsic_trial") = extrinsic_trials
           /\ \A i \in DOMAIN h :
                 h[i] = IF i % 2 = 1 THEN "controller.start_extrinsic_trial"
                        ELSE "controller.end_extrinsic_trial"

\* C2: a run that returns has called end_extrinsic_phase exactly once, as
\* its last call on the controller.
C2_EndPhaseOnce ==
    pc = "returned" =>
        LET c == SelectSeq(log, IsControllerCall)
        IN /\ Count("controller.end_extrinsic_phase") = 1
           /\ c # <<>>
           /\ c[Len(c)] = "controller.end_extrinsic_phase"

\* C3: when controller.step raises in extrinsic trial k, evaluate ends
\* there: the raising call is the last call of the run, trial k was not
\* evaluated, trial k+1 was not reset nor given a goal, nothing is returned,
\* and nothing happens afterwards.
StepRaisedInTrial ==
    exc = "controller.step" /\ Count("controller.start_extrinsic_phase") > 0

C3_StepFailureEndsRun ==
    /\ [](StepRaisedInTrial =>
            /\ pc = "raised"
            /\ result = None
            /\ log[Len(log)] = "controller.step"
            /\ Len(SelectSeq(After("controller.start_extrinsic_phase"),
                             IsTripleCall)) = 2 * (k + 1) + k
            /\ Count("env.set_goal") = k + 1
            /\ Count("env.evaluateGoal") = k)
    /\ [][StepRaisedInTrial => UNCHANGED vars]_vars

C3_Witness ==
    StepRaisedInTrial /\ pc = "raised" /\ k + 1 < extrinsic_trials

\* C4: when an exception of the controller or the environment leaves one of
\* the step loops, the evaluation state says ERROR.
C4_ErrorState ==
    (pc = "raised" /\ exc \in {"controller.step", "env.step"}) =>
        evaluation_state.state = "ERROR"

\* C5: with an intrinsic budget of 0 or False, the first call on the
\* controller, and the first of all controller calls, env.reset and
\* env.step, is start_extrinsic_phase, and it is made.
C5_SkipGoesToExtrinsic ==
    (SetUp /\ ~Truthy(BudgetArgument)) =>
        LET c == SelectSeq(log, IsSimulationCall)
        IN /\ c # <<>> => c[1] = "controller.start_extrinsic_phase"
           /\ Count("controller.start_intrinsic_phase") = 0
           /\ Count("controller.end_intrinsic_phase") = 0
           /\ pc \notin {"x_phase"} => c # <<>>

C5_Witness ==
    /\ pc = "returned"
    /\ BudgetArgument = PyFalse
    /\ Count("controller.step") > 0

\* C6: with an intrinsic budget of 0 or False, the evaluation state has
\* intrinsic_phase_state SKIPPED from the extrinsic phase on.
C6_IntrinsicSkipped ==
    (SetUp /\ ~Truthy(BudgetArgument)
        /\ Count("controller.start_extrinsic_phase") > 0) =>
        /\ "intrinsic_phase_state" \in DOMAIN evaluation_state
        /\ evaluation_state.intrinsic_phase_state = "INTRINSIC_PHASE_SKIPPED"

\* C7: after start_extrinsic_phase the environment sees reset, set_goal,
\* evaluateGoal, reset, set_goal, evaluateGoal, ... and nothing else of
\* these three; a run that returns has made exactly N such triples, and N
\* calls of set_goal and of evaluateGoal in all.
TripleAt(i) ==
    CASE i % 3 = 1 -> "env.reset"
      [] i % 3 = 2 -> "env.set_goal"
      [] OTHER     -> "env.evaluateGoal"

C7_TripleNTimes ==
    LET t == SelectSeq(After("controller.start_extrinsic_phase"),
                       IsTripleCall)
    IN /\ \A i \in DOMAIN t : t[i] = TripleAt(i)
       /\ Len(t) <= 3 * extrinsic_trials
       /\ pc = "returned" =>
             /\ Len(t) = 3 * extrinsic_trials
             /\ Count("env.set_goal") = extrinsic_trials
             /\ Count("env.evaluateGoal") = extrinsic_trials

C7_Witness ==
    /\ pc = "returned"
    /\ extrinsic_trials >= 2
    /\ Count("env.evaluateGoal") = extrinsic_trials
    /\ Count("env.reset") = extrinsic_trials + 1

\* the fixed labels and their fields in the score object
FixedLabels == {"2D", "2.5D", "3D"}

FieldOf(l) ==
    CASE l = "2D"   -> "score_2D"
      [] l = "2.5D" -> "score_2.5D"
      [] l = "3D"   -> "score_3D"

HasData(scores_, l) == l \in DOMAIN scores_ /\ scores_[l] # <<>>

\* the fraction a is the number n / d, for d > 0
IsQuotient(a, n, d) == a.d > 0 /\ a.n * d = n * a.d

\* C8: build_score_object gives every label with data the mean of its
\* scores, and score_total the sum of the three label scores divided by 3;
\* the ledger {2D: [1, 3]} gives 2, 0, 0 and 2/3.
C8_MeanOfMeans ==
    pc = "agg_ret" =>
        LET a == result["score_2D"]
            b == result["score_2.5D"]
            c == result["score_3D"]
            t == result["score_total"]
        IN /\ \A l \in FixedLabels :
                 HasData(scores, l) =>
                     IsQuotient(result[FieldOf(l)], SumSeq(scores[l]),
                                Len(scores[l]))
           /\ IF a.d = 0 \/ b.d = 0 \/ c.d = 0
              THEN t.d = 0
              ELSE IsQuotient(t, a.n * b.d * c.d + b.n * a.d * c.d
                                   + c.n * a.d * b.d,
                              3 * a.d * b.d * c.d)
           /\ (DOMAIN scores = {"2D"} /\ scores["2D"] = <<1, 3>>) =>
                 /\ a = [n |-> 2, d |-> 1]
                 /\ b = [n |-> 0, d |-> 1]
                 /\ c = [n |-> 0, d |-> 1]
                 /\ t = [n |-> 2, d |-> 3]

\* labels of unequal sizes: the total differs from the mean over all trials
C8_Witness ==
    /\ pc = "agg_ret"
    /\ HasData(scores, "2D") /\ Len(scores["2D"]) = 2
    /\ HasData(scores, "3D") /\ Len(scores["3D"]) = 1
    /\ "2.5D" \notin DOMAIN scores
    /\ result["score_total"].d = 6

C8_ExampleWitness ==
    /\ pc = "agg_ret"
    /\ DOMAIN scores = {"2D"}
    /\ scores["2D"] = <<1, 3>>

\* C9: build_score_object returns exactly the four fields, and a fixed
\* label without entries, absent from the ledger or present with an empty
\* list, scores exactly 0; the ledger without any entry gives 0, 0, 0, 0.
C9_NoEntriesScoreZero ==
    pc = "agg_ret" =>
        /\ DOMAIN result = {"score_2D", "score_2.5D", "score_3D",
                            "score_total"}
        /\ \A l \in FixedLabels :
              ~HasData(scores, l) => result[FieldOf(l)] = [n |-> 0, d |-> 1]
        /\ (\A l \in FixedLabels : ~HasData(scores, l)) =>
              result["score_total"] = [n |-> 0, d |-> 1]

\* C10: when evaluate records the value v for a fixed label without
\* entries, the label's score goes from 0 to v, the two other label scores
\* stay, and score_total grows by v / 3.
Snapshot == IF DOMAIN postfix = {} THEN build_score_object(scores) ELSE postfix

FirstEntryEffect(strict) ==
    (pc = "x_add" /\ goal[1] \in FixedLabels /\ ~HasData(scores, goal[1])) =>
        LET l == goal[1]
            v == goal[2]
            before == Snapshot
            after  == postfix'
        IN /\ before[FieldOf(l)] = [n |-> 0, d |-> 1]
           /\ after[FieldOf(l)] = [n |-> v, d |-> 1]
           /\ strict => after[FieldOf(l)].n > before[FieldOf(l)].n
           /\ v > 0 <=> after[FieldOf(l)].n > before[FieldOf(l)].n
           /\ \A m \in FixedLabels \ {l} :
                 after[FieldOf(m)] = before[FieldOf(m)]
           /\ after["score_total"].d > 0
           /\ before["score_total"].d > 0
           /\ IsQuotient(after["score_total"],
                         3 * before["score_total"].n
                             + v * before["score_total"].d,
                         3 * before["score_total"].d)

\* C10 as claimed: the label's score strictly increases, for every v
C10_FirstEntryStrict == [][FirstEntryEffect(TRUE)]_vars

\* C10 amended: the label's score goes from 0 to v, which is an increase
\* exactly for v > 0
C10_FirstEntry == [][FirstEntryEffect(FALSE)]_vars

\* a second label gets its first entry while another label has data
C10_Witness ==
    /\ pc \in {"x_reset", "x_finish"}
    /\ DOMAIN scores = {"2D", "3D"}
    /\ Len(scores["2D"]) = 1
    /\ Len(scores["3D"]) = 1
    /\ goal[1] = "3D"
    /\ goal[2] = MaxScore
    /\ postfix["score_3D"] = [n |-> MaxScore, d |-> 1]

----------------------------------------------------------------------------
(* C11 - C20 *)

\* new is old with the value v put at the end of the list of label l, the
\* list being made when old has none
Appended(old, new, l, v) ==
    /\ DOMAIN new = (DOMAIN old) \cup {l}
    /\ new[l] = (IF l \in DOMAIN old THEN old[l] ELSE <<>>) \o <<v>>
    /\ \A m \in (DOMAIN old) \ {l} : new[m] = old[m]

C12_RefusedBeforeAnyStep ==
    Controller # "BasePolicySubclass" =>
        /\ pc \in {"start", "raised"}
        /\ pc = "raised" => exc = "not_a_subclass"
        /\ result = None
        /\ \A i \in DOMAIN log :
              /\ ~IsSimulationCall(log[i])
              /\ log[i] \notin {"env.set_goal", "env.evaluateGoal",
                                "Controller.__init__"}

C12_Witness ==
    /\ Controller = "OtherClass"
    /\ pc = "raised"
    /\ exc = "not_a_subclass"
    /\ log # <<>>

\* index of the first call of op in the log, 0 when there is none
FirstIndex(op) ==
    IF Count(op) = 0 THEN 0
    ELSE CHOOSE j \in DOMAIN log :
             log[j] = op /\ \A h \in 1..(j - 1) : log[h] # op

ExtrinsicPcs ==
    {"x_reset", "x_goal", "x_trial", "x_step", "x_env", "x_end", "x_eval",
     "x_add", "x_finish", "x_notify", "x_return", "returned"}

\* C13: the phases run in sequence.  No phase hook is called twice.  With a
\* positive budget every intrinsic step lies between start_intrinsic_phase
\* and end_intrinsic_phase, and end_intrinsic_phase comes before
\* start_extrinsic_phase; without one no intrinsic hook is called.
\* start_extrinsic_phase comes before every extrinsic reset, set_goal, trial
\* hook and step, and no intrinsic hook follows it.  A run that is in the
\* extrinsic phase has called start_extrinsic_phase once, and with a
\* positive budget both intrinsic hooks once.
C13_PhasesInSequence ==
    SetUp =>
        LET iS == FirstIndex("controller.start_intrinsic_phase")
            iE == FirstIndex("controller.end_intrinsic_phase")
            xS == FirstIndex("controller.start_extrinsic_phase")
            positive == BudgetArgument.v > 0
            InIntrinsic(j) == iS > 0 /\ iS < j /\ (iE = 0 \/ j < iE)
            InExtrinsic(j) == xS > 0 /\ xS < j
        IN /\ Count("controller.start_intrinsic_phase") <= 1
           /\ Count("controller.end_intrinsic_phase") <= 1
           /\ Count("controller.start_extrinsic_phase") <= 1
           /\ iE > 0 => (iS > 0 /\ iS < iE)
           /\ iS > 0 => positive
           /\ (xS > 0 /\ positive) => (iE > 0 /\ iE < xS)
           /\ \A j \in DOMAIN log :
                 /\ log[j] \in {"controller.step", "env.step"} =>
                       (InIntrinsic(j) \/ InExtrinsic(j))
                 /\ log[j] \in {"env.set_goal", "env.evaluateGoal",
                                "controller.start_extrinsic_trial",
                                "controller.end_extrinsic_trial"} =>
                       InExtrinsic(j)
                 /\ log[j] = "env.reset" =>
                       \/ InExtrinsic(j)
                       \/ positive /\ iS = j + 1
                       \/ positive /\ iS = 0 /\ j = Len(log)
                 /\ log[j] \in {"controller.start_intrinsic_phase",
                                "controller.end_intrinsic_phase"} =>
                       (xS = 0 \/ j < xS)
           /\ pc \in ExtrinsicPcs =>
                 /\ Count("controller.start_extrinsic_phase") = 1
                 /\ positive =>
                       /\ Count("controller.start_intrinsic_phase") = 1
                       /\ Count("controller.end_intrinsic_phase") = 1

\* a run with an intrinsic phase of two steps has returned
C13_Witness ==
    /\ pc = "returned"
    /\ BudgetArgument.v > 0
    /\ extrinsic_trials >= 1
    /\ FirstIndex("controller.end_intrinsic_phase")
          = FirstIndex("controller.start_intrinsic_phase") + 5

\* the pairs of consecutive calls of the extrinsic phase
TrialOrder ==
    {<<"env.reset", "env.set_goal">>,
     <<"env.set_goal", "controller.start_extrinsic_trial">>,
     <<"controller.start_extrinsic_trial", "controller.step">>,
     <<"controller.step", "env.step">>,
     <<"env.step", "controller.step">>,
     <<"env.step", "controller.end_extrinsic_trial">>,
     <<"controller.end_extrinsic_trial", "env.evaluateGoal">>,
     <<"env.evaluateGoal", "env.reset">>,
     <<"env.evaluateGoal", "controller.end_extrinsic_trial">>}

\* C14: in the extrinsic phase the calls follow one another as reset,
\* set_goal, start_extrinsic_trial, (controller.step, env.step)+,
\* end_extrinsic_trial, evaluateGoal, and then the next reset;
\* evaluateGoal is asked with done = true, right after end_extrinsic_trial;
\* when the next trial is about to be reset the returned score is the last
\* of its label in the ledger and the snapshot is the one of that ledger.
C14_TrialOrder ==
    LET x == After("controller.start_extrinsic_phase")
    IN /\ \A i \in 1..(Len(x) - 1) :
             /\ <<x[i], x[i + 1]>> \in TrialOrder
             /\ (x[i] = "env.evaluateGoal"
                    /\ x[i + 1] = "controller.end_extrinsic_trial")
                   => i + 1 = Len(x)
       /\ x # <<>> =>
             x[1] = IF extrinsic_trials > 0 THEN "env.reset"
                    ELSE "controller.end_extrinsic_trial"
       /\ pc = "x_eval" =>
             /\ done
             /\ log[Len(log)] = "controller.end_extrinsic_trial"
       /\ pc = "x_add" =>
             /\ log[Len(log)] = "env.evaluateGoal"
             /\ Entries(scores, DOMAIN scores) = Count("env.evaluateGoal") - 1
       /\ (pc \in {"x_reset", "x_finish"} /\ Count("env.evaluateGoal") > 0) =>
             /\ log[Len(log)] = "env.evaluateGoal"
             /\ Entries(scores, DOMAIN scores) = Count("env.evaluateGoal")
             /\ goal[1] \in DOMAIN scores
             /\ scores[goal[1]][Len(scores[goal[1]])] = goal[2]
             /\ postfix = build_score_object(scores)

\* the second trial is about to start, the first one took two steps
C14_Witness ==
    /\ pc = "x_reset"
    /\ k = 1
    /\ Count("env.step") = 2
    /\ goal = <<"2.5D", MaxScore>>
    /\ postfix["score_2.5D"] = [n |-> MaxScore, d |-> 1]

\* C15: a step loop goes on exactly while done is false, whatever the
\* number of steps: after env.step returned, evaluate is back at
\* controller.step when done is false and past the loop when it is true;
\* so the steps of an episode can exceed the configured budget.
C15_BudgetNotEnforced ==
    /\ [](pc \in {"i_step", "x_step"} => ~done)
    /\ [](pc \in {"i_end", "x_end"} => (done /\ steps >= 1))
    /\ [][(pc = "i_env" /\ pc' # "raised") =>
              pc' = IF done' THEN "i_end" ELSE "i_step"]_vars
    /\ [][(pc = "x_env" /\ pc' # "raised") =>
              pc' = IF done' THEN "x_end" ELSE "x_step"]_vars

\* a trial has ended after more steps than extrinsic_timesteps, in a run
\* whose intrinsic phase took more steps than intrinsic_timesteps
C15_Witness ==
    /\ pc = "x_end"
    /\ steps > extrinsic_timesteps
    /\ BudgetArgument.v > 0
    /\ FirstIndex("controller.end_intrinsic_phase")
          > FirstIndex("controller.start_intrinsic_phase")
                + 2 * BudgetArgument.v + 1

\* C16: when the environment signals done in the end in every episode and
\* no call blocks, a run in which no call raises returns; it returns a score
\* object after all N trials.  A step loop is left only when env.step
\* returned done = true.
C16_Terminates ==
    /\ <>(exc # "none" \/ pc = "returned")
    /\ [](pc = "returned" =>
            /\ DOMAIN result = {"score_2D", "score_2.5D", "score_3D",
                                "score_total"}
            /\ Count("env.evaluateGoal") = extrinsic_trials
            /\ Count("controller.start_extrinsic_trial") = extrinsic_trials
            /\ Entries(scores, DOMAIN scores) = extrinsic_trials)
    /\ [][(pc \in {"i_env", "x_env"} /\ ~done') =>
              pc' \in {"i_step", "x_step", "raised"}]_vars

C16_Witness ==
    /\ pc = "returned"
    /\ exc = "none"
    /\ extrinsic_trials >= 2
    /\ BudgetArgument.v > 0
    /\ Entries(scores, DOMAIN scores) = extrinsic_trials

\* number of env.evaluateGoal calls that returned: a call that raised is in
\* the log as well
ReturnedEvaluateGoal ==
    Count("env.evaluateGoal") - (IF exc = "env.evaluateGoal" THEN 1 ELSE 0)

\* C17: the ledger is append-only and counts the completed trials: it holds
\* as many entries as evaluateGoal calls returned (line 226 adds the result
\* as soon as the call returned: at that point of the line the last result
\* is the one being added); adding puts the returned score at the end of the
\* list of the returned label, making the list when there is none; no step
\* changes, reorders or removes an entry already there.
C17_AppendOnly ==
    /\ [](Entries(scores, DOMAIN scores)
             = ReturnedEvaluateGoal - (IF pc = "x_add" THEN 1 ELSE 0))
    /\ [][/\ pc = "x_add" => Appended(scores, scores', goal[1], goal[2])
          /\ pc # "x_add" => scores' = scores
          /\ \A l \in DOMAIN scores :
                /\ l \in DOMAIN scores'
                /\ Len(scores'[l]) >= Len(scores[l])
                /\ SubSeq(scores'[l], 1, Len(scores[l])) = scores[l]]_vars

\* two results of the same label are in the ledger, in the order returned
C17_Witness ==
    /\ pc = "x_finish"
    /\ DOMAIN scores = {"3D"}
    /\ scores["3D"] = <<-1, MaxScore>>
    /\ Count("env.evaluateGoal") = 2

\* C18: controller.step is never called with done = true.  Every call
\* passes the current observation and reward and done = false; the first
\* call of an episode passes the observation of env.reset and reward 0; an
\* episode that is over made at least one controller.step, env.step pair;
\* what the last env.step of an episode returned, with done = true, is not
\* what controller.step was last called with, and no call is made while done
\* is true.
C18_StepNeverSeesDone ==
    /\ [](step_args # None => step_args[3] = FALSE)
    /\ []((pc \in {"i_env", "x_env"} /\ steps = 0) =>
             step_args = <<ResetObservation, 0, FALSE>>)
    /\ [](pc \in {"i_end", "x_end"} =>
             /\ steps >= 1
             /\ Len(log) >= 2
             /\ log[Len(log)] = "env.step"
             /\ log[Len(log) - 1] = "controller.step")
    /\ [](done =>
             /\ pc \notin {"i_step", "x_step", "i_env", "x_env"}
             /\ step_args # <<observation, reward, done>>
             /\ step_args[1] # observation)
    /\ [][(pc \in {"i_step", "x_step"} /\ pc' # "raised") =>
              /\ ~done
              /\ step_args' = <<observation, reward, FALSE>>]_vars

\* the second trial is over after two steps: the controller saw the first
\* step's observation last, the environment returned the second one
C18_Witness ==
    /\ pc = "x_end"
    /\ k = 1
    /\ done
    /\ steps = 2
    /\ step_args = <<StepObservation(1), StepReward(1), FALSE>>
    /\ observation = StepObservation(2)

\* C19: inside evaluate every label that is a key of the ledger has at least
\* one score, so no score object evaluate builds (the snapshots, the printed
\* one, the returned one) holds the mean of an empty list: none of its
\* fields is nan.
C19_NoEmptyList ==
    /\ \A l \in DOMAIN scores : scores[l] # <<>>
    /\ \A o \in {postfix, printed, result} :
          \A f \in DOMAIN o : ~IsNaN(o[f])

\* a run has returned with scores under two labels
C19_Witness ==
    /\ pc = "returned"
    /\ DOMAIN scores = {"2D", "other"}
    /\ result = build_score_object(scores)
    /\ result["score_2D"] = Frac(MaxScore, 1)
    /\ result["score_total"] = Frac(MaxScore, 3)

\* the ledger without the results of the labels outside S
Restrict(scores_, S) == [l \in (DOMAIN scores_) \cap S |-> scores_[l]]

\* C20: a result whose label is outside {2D, 2.5D, 3D} is stored in the
\* ledger, at the end of the list of its label, and the snapshot taken then
\* is the one of the ledger without it, equal to the snapshot before; every
\* score object, the returned one included, has the four fields only and is
\* the one built from the results of the three labels alone.
C20_OtherLabelNoEffect ==
    /\ [][(pc = "x_add" /\ goal[1] \notin FixedLabels) =>
             /\ goal[1] \in DOMAIN scores'
             /\ scores'[goal[1]][Len(scores'[goal[1]])] = goal[2]
             /\ postfix' = build_score_object(scores)
             /\ postfix' = Snapshot]_vars
    /\ [](\A o \in {postfix, printed, result} :
             o # None =>
                /\ DOMAIN o = {"score_2D", "score_2.5D", "score_3D",
                               "score_total"}
                /\ o = build_score_object(Restrict(scores, FixedLabels)))

\* the last trial returned a score under the label "other"; the returned
\* score object counts the 3D result only
C20_Witness ==
    /\ pc = "returned"
    /\ DOMAIN scores = {"3D", "other"}
    /\ scores["3D"] = <<MaxScore>>
    /\ goal = <<"other", MaxScore>>
    /\ result["score_3D"] = Frac(MaxScore, 1)
    /\ result["score_total"] = Frac(MaxScore, 3)

====
